---- MODULE Spec2Model ----
(***************************************************************************)
(* GoogleTokenStrategy (src/index.js): authenticate, loadUserProfile and   *)
(* userProfile of a passport strategy that verifies a Google access token. *)
(*                                                                         *)
(* JavaScript values are modelled as tagged records, so that truthiness,   *)
(* property reads on undefined and the || operator behave as in the code.  *)
(***************************************************************************)
EXTENDS Integers, Sequences, FiniteSets, TLC

----------------------------------------------------------------------------
(* JavaScript values *)

Undefined == [t |-> "undefined"]
Null      == [t |-> "null"]
Str(s)    == [t |-> "string", v |-> s]
Bool(b)   == [t |-> "boolean", b |-> b]
Obj(p)    == [t |-> "object", props |-> p]
Arr(xs)   == [t |-> "array", items |-> xs]
\* the unparsed response body handed over by the OAuth2 client: a string,
\* kept as its sequence of lexical tokens
Body(toks) == [t |-> "body", toks |-> toks]

\* ToBoolean: what `if (x)`, `!x`, `x || y` and `x && y` test
Truthy(x) ==
    CASE x.t = "undefined" -> FALSE
      [] x.t = "null"      -> FALSE
      [] x.t = "string"    -> x.v # ""
      [] x.t = "boolean"   -> x.b
      [] x.t = "body"      -> x.toks # <<>>
      [] OTHER             -> TRUE

\* reading a property of undefined or null throws a TypeError
Nullish(x) == x.t \in {"undefined", "null"}

\* x.k for a value that is not nullish
Get(x, k) ==
    IF x.t = "object" /\ k \in DOMAIN x.props THEN x.props[k] ELSE Undefined

\* the TypeError thrown by the property read at the given source line
TypeError(line) == [t |-> "error", name |-> "TypeError", line |-> line]

NoThrow == [t |-> "nothrow"]

----------------------------------------------------------------------------
(* JSON.parse on the token sequence of a body.  Grammar covered: null, a   *)
(* string, and an object whose member values are strings or null.          *)

Tok(k, s) == [k |-> k, s |-> s]
LBrace == Tok("{", "")
RBrace == Tok("}", "")
Colon  == Tok(":", "")
Comma  == Tok(",", "")
TNull  == Tok("null", "")
TStr(s) == Tok("str", s)
TJunk  == Tok("junk", "<html>")

SyntaxError == [t |-> "error", name |-> "SyntaxError"]

Scalar(tok) == IF tok.k = "null" THEN Null ELSE Str(tok.s)

\* members: str : scalar ( , str : scalar )*
WellFormedMembers(m) ==
    /\ Len(m) % 4 = 3
    /\ \A i \in 1..Len(m) :
          CASE i % 4 = 1 -> m[i].k = "str"
            [] i % 4 = 2 -> m[i].k = ":"
            [] i % 4 = 3 -> m[i].k \in {"str", "null"}
            [] OTHER     -> m[i].k = ","

\* the object the members denote; a repeated key keeps its last value
MembersObject(m) ==
    LET n == (Len(m) + 1) \div 4
        keys == { m[4 * j - 3].s : j \in 1..n }
        last(k) == CHOOSE j \in 1..n :
                      /\ m[4 * j - 3].s = k
                      /\ \A i \in 1..n : m[4 * i - 3].s = k => i <= j
    IN  Obj([k \in keys |-> Scalar(m[4 * last(k) - 1])])

JSONParse(toks) ==
    IF Len(toks) = 1 /\ toks[1].k \in {"str", "null"}
    THEN [ok |-> TRUE, value |-> Scalar(toks[1])]
    ELSE IF Len(toks) >= 2 /\ toks[1].k = "{" /\ toks[Len(toks)].k = "}"
    THEN LET m == SubSeq(toks, 2, Len(toks) - 1)
         IN  IF m = <<>> THEN [ok |-> TRUE, value |-> Obj([k \in {} |-> Undefined])]
             ELSE IF WellFormedMembers(m)
                  THEN [ok |-> TRUE, value |-> MembersObject(m)]
                  ELSE [ok |-> FALSE, value |-> SyntaxError]
    ELSE [ok |-> FALSE, value |-> SyntaxError]

----------------------------------------------------------------------------
(* The strategy instance, as the constructor leaves it (index.js 40-49 and *)
(* the OAuth2Strategy base constructor it calls).                          *)

\* skipUserProfile option: a boolean, a predicate called as f(), or a
\* predicate of two parameters called as f(accessToken, done)
SkipBoolean(b)   == [type |-> "boolean",  length |-> 0, err |-> Undefined, skip |-> Bool(b)]
SkipSync(b)      == [type |-> "function", length |-> 0, err |-> Undefined, skip |-> Bool(b)]
SkipAsync(e, sk) == [type |-> "function", length |-> 2, err |-> e, skip |-> sk]

SkipError == [t |-> "error", name |-> "SkipPredicateError"]

SkipSettings ==
    { SkipBoolean(FALSE), SkipBoolean(TRUE), SkipSync(FALSE), SkipSync(TRUE),
      SkipAsync(Null, Bool(FALSE)), SkipAsync(Null, Bool(TRUE)),
      SkipAsync(SkipError, Undefined) }

\* the application's verify function, given by the completion it hands to
\* done(error, user, info)
VerifyError == [t |-> "error", name |-> "VerifyError"]
User        == Obj([id |-> Str("1")])
Denied      == Obj([message |-> Str("denied")])
Scope       == Obj([scope |-> Str("all")])

VerifyFunctions ==
    { [err |-> VerifyError, user |-> Undefined,   info |-> Undefined],
      [err |-> Null,        user |-> Bool(FALSE), info |-> Denied],
      [err |-> Null,        user |-> User,        info |-> Undefined],
      [err |-> Null,        user |-> User,        info |-> Scope] }

PassReqSettings == { Bool(TRUE), Bool(FALSE), Undefined }

GoogleTokenStrategy(verify, passReq, skip) ==
    [ t |-> "object",
      name |-> "google-token",
      verify |-> verify,
      _passReqToCallback |-> passReq,
      _skipUserProfile |-> skip ]

Strategies ==
    { GoogleTokenStrategy(v, p, s) :
        v \in VerifyFunctions, p \in PassReqSettings, s \in SkipSettings }

\* `this` inside a function that is called without a receiver, in strict
\* mode code (index.js line 1): done(...) at 135, 137, 153, 160 and 167
PlainCallThis == Undefined

----------------------------------------------------------------------------
(* Requests *)

AccessTokens(x)  == { Undefined, Str(""), Str(x) }
RefreshTokens(x) == { Undefined, Str(x) }
ErrorParams      == { Undefined, Str(""), Str("access_denied") }

Bodies ==
    { Undefined } \cup
    { Obj([access_token |-> a, refresh_token |-> r]) :
        a \in AccessTokens("at-body"), r \in RefreshTokens("rt-body") }

Queries ==
    { Undefined } \cup
    { Obj([error |-> e, access_token |-> a, refresh_token |-> r]) :
        e \in ErrorParams, a \in AccessTokens("at-query"),
        r \in RefreshTokens("rt-query") }

Headers ==
    { Undefined } \cup
    { Obj([access_token |-> a, refresh_token |-> r]) :
        a \in { Undefined, Str("at-header") }, r \in RefreshTokens("rt-header") }

Requests ==
    { [query |-> q, body |-> b, headers |-> h] :
        q \in Queries, b \in Bodies, h \in Headers }

NoRequest == [query |-> Undefined, body |-> Undefined, headers |-> Undefined]

----------------------------------------------------------------------------
(* Provider responses to _oauth2.get *)

ProviderError == [t |-> "error", name |-> "ProviderError"]

Member(k, v) == <<TStr(k), Colon, TStr(v)>>

AdaBody ==
    <<LBrace>> \o Member("id", "42") \o <<Comma>> \o Member("name", "Ada Lovelace")
        \o <<Comma>> \o Member("family_name", "Lovelace")
        \o <<Comma>> \o Member("given_name", "Ada")
        \o <<Comma>> \o Member("email", "ada@example.com")
        \o <<Comma>> \o Member("picture", "http://x/y.png") \o <<RBrace>>

FullBody ==
    <<LBrace>> \o Member("id", "7") \o <<Comma>> \o Member("name", "Grace B Hopper")
        \o <<Comma>> \o Member("family_name", "Hopper")
        \o <<Comma>> \o Member("given_name", "Grace")
        \o <<Comma>> \o Member("middle_name", "B")
        \o <<Comma>> \o Member("gender", "female")
        \o <<Comma>> \o Member("email", "grace@example.com")
        \o <<Comma>> \o Member("picture", "http://x/g.png")
        \o <<Comma>> \o Member("locale", "en")
        \o <<Comma>> \o Member("id", "8") \o <<RBrace>>

EmptyObjectBody == <<LBrace, RBrace>>
NullBody        == <<TNull>>
TruncatedBody   == <<LBrace>> \o Member("id", "42") \o <<Comma>>
HtmlBody        == <<TJunk>>

ResponseBodies ==
    { AdaBody, FullBody, EmptyObjectBody, NullBody, TruncatedBody, HtmlBody }

\* (err, body) handed to the callback of _oauth2.get
ProviderResponses ==
    { [err |-> ProviderError, body |-> Undefined] } \cup
    { [err |-> Null, body |-> Body(b)] : b \in ResponseBodies }

UserinfoURL == "https://www.googleapis.com/oauth2/v2/userinfo"

InternalOAuthError(message, err) ==
    [t |-> "error", name |-> "InternalOAuthError", message |-> message, oauthError |-> err]

----------------------------------------------------------------------------
(* State *)

VARIABLES
    strategy,      \* the one strategy instance every attempt runs on
    pc,            \* per attempt: "idle", "skip", "get" or "done"
    req,           \* per attempt: the request given to authenticate
    accessToken,   \* per attempt: the local of line 68
    refreshToken,  \* per attempt: the local of line 69
    loadCalls,     \* per attempt: access tokens handed to loadUserProfile
    skipCalls,     \* per attempt: access tokens handed to the asynchronous skip predicate
    netCalls,      \* per attempt: [url, accessToken] of each _oauth2.get
    doneCalls,     \* per attempt: (err, profile) of each call of the callback of line 71
    verifyCalls,   \* per attempt: argument lists of each call of this.verify
    provided,      \* per attempt: (err, body) of each answer of the provider
    signals,       \* per attempt: this.success / this.fail / this.error calls
    raised         \* per attempt: exceptions that left authenticate or a callback uncaught

vars == << strategy, pc, req, accessToken, refreshToken, loadCalls, skipCalls,
           netCalls, provided, doneCalls, verifyCalls, signals, raised >>

Signal(kind, args) == [kind |-> kind, args |-> args]

\* what running a piece of code did: the outcome signals it sent, the
\* verify calls it made, the calls of the line 71 callback, and the
\* exception it let escape (NoThrow when it returned)
Effect(sig, ver, calls, threw) ==
    [signals |-> sig, verifyCalls |-> ver, doneCalls |-> calls, threw |-> threw]

Threw(e) == e # NoThrow

----------------------------------------------------------------------------
(* authenticate, lines 57-94 *)

\* function verified(err, user, info), lines 76-86
verified(this, err, user, info) ==
    IF Truthy(err)
    THEN IF Nullish(this) THEN Effect(<<>>, <<>>, <<>>, TypeError(78))
         ELSE Effect(<<Signal("error", <<err>>)>>, <<>>, <<>>, NoThrow)
    ELSE IF ~Truthy(user)
    THEN IF Nullish(this) THEN Effect(<<>>, <<>>, <<>>, TypeError(82))
         ELSE Effect(<<Signal("fail", <<info>>)>>, <<>>, <<>>, NoThrow)
    ELSE IF Nullish(this) THEN Effect(<<>>, <<>>, <<>>, TypeError(85))
         ELSE Effect(<<Signal("success", <<user, info>>)>>, <<>>, <<>>, NoThrow)

\* function (err, profile) handed to loadUserProfile, lines 71-93.  The
\* verify function completes inside its call, through verified, which it
\* calls without a receiver.
loadUserProfileCallback(this, request, at, rt, err, profile) ==
    LET call == <<[err |-> err, profile |-> profile]>> IN
    IF Truthy(err)
    THEN IF Nullish(this) THEN Effect(<<>>, <<>>, call, TypeError(73))
         ELSE Effect(<<Signal("fail", <<err>>)>>, <<>>, call, NoThrow)
    ELSE IF Nullish(this) THEN Effect(<<>>, <<>>, call, TypeError(88))
    ELSE LET args == IF Truthy(this._passReqToCallback)
                     THEN <<request, at, rt, profile>>
                     ELSE <<at, rt, profile>>
             v == verified(PlainCallThis, this.verify.err, this.verify.user,
                           this.verify.info)
         IN  Effect(v.signals, <<args>>, call, v.threw)

\* the function of line 71 as a value: the variables of authenticate it
\* closes over
Closure(request, at, rt) ==
    [request |-> request, accessToken |-> at, refreshToken |-> rt]

\* done(err, profile), a call without a receiver, for done the function of
\* line 71
Call(done, err, profile) ==
    loadUserProfileCallback(PlainCallThis, done.request, done.accessToken,
                            done.refreshToken, err, profile)

\* the query string consulted before the body
ExtractToken_queryFirst(request, k, line) ==
    IF Nullish(request.query)
    THEN [threw |-> TypeError(line), value |-> Undefined]
    ELSE IF Truthy(Get(request.query, k))
    THEN [threw |-> NoThrow, value |-> Get(request.query, k)]
    ELSE IF Truthy(Get(request.body, k))
    THEN [threw |-> NoThrow, value |-> Get(request.body, k)]
    ELSE IF Nullish(request.headers)
    THEN [threw |-> TypeError(line), value |-> Undefined]
    ELSE [threw |-> NoThrow, value |-> Get(request.headers, k)]

\* body.k || query.k || headers.k of lines 68 and 69: the value, or the
\* TypeError of reading k on a part the request does not have
ExtractToken(request, k, line) ==
    IF Truthy(Get(request.body, k))
    THEN [threw |-> NoThrow, value |-> Get(request.body, k)]
    ELSE IF Nullish(request.query)
    THEN [threw |-> TypeError(line), value |-> Undefined]
    ELSE IF Truthy(Get(request.query, k))
    THEN [threw |-> NoThrow, value |-> Get(request.query, k)]
    ELSE IF Nullish(request.headers)
    THEN [threw |-> TypeError(line), value |-> Undefined]
    ELSE [threw |-> NoThrow, value |-> Get(request.headers, k)]

\* the check made on another parameter of the error response
HasOAuthError_description(request) ==
    Truthy(request.query) /\ Truthy(Get(request.query, "error_description"))

\* req.query && req.query.error, line 58
HasOAuthError(request) ==
    Truthy(request.query) /\ Truthy(Get(request.query, "error"))

----------------------------------------------------------------------------
(* userProfile, lines 110-140 *)

\* family and given name exchanged
Profile_namesSwapped(json, body) ==
    Obj([ provider    |-> Str("google"),
          id          |-> Get(json, "id"),
          displayName |-> Get(json, "name"),
          name        |-> Obj([ familyName |-> Get(json, "given_name"),
                                givenName  |-> Get(json, "family_name"),
                                middleName |-> Get(json, "middle_name") ]),
          gender      |-> Get(json, "gender"),
          emails      |-> Arr(<< Obj([value |-> Get(json, "email")]) >>),
          photos      |-> Arr(<< Obj([value |-> Get(json, "picture")]) >>),
          _json       |-> json,
          _raw        |-> body ])

\* the profile of lines 119-133
Profile(json, body) ==
    Obj([ provider    |-> Str("google"),
          id          |-> Get(json, "id"),
          displayName |-> Get(json, "name"),
          name        |-> Obj([ familyName |-> Get(json, "family_name"),
                                givenName  |-> Get(json, "given_name"),
                                middleName |-> Get(json, "middle_name") ]),
          gender      |-> Get(json, "gender"),
          emails      |-> Arr(<< Obj([value |-> Get(json, "email")]) >>),
          photos      |-> Arr(<< Obj([value |-> Get(json, "picture")]) >>),
          _json       |-> json,
          _raw        |-> body ])

\* one effect after another; the second runs only when the first returned
Then(e1, e2) ==
    Effect(e1.signals \o e2.signals, e1.verifyCalls \o e2.verifyCalls,
           e1.doneCalls \o e2.doneCalls, e2.threw)

\* the callback (err, body) => {...} of _oauth2.get, lines 111-139; an
\* exception thrown by done(null, profile) inside the try block is caught
\* at line 136 and handed to done again
userProfileResponse(resp, done) ==
    IF Truthy(resp.err)
    THEN Call(done, InternalOAuthError("failed to fetch user profile", resp.err),
              Undefined)
    ELSE LET parsed == JSONParse(resp.body.toks) IN
         IF ~parsed.ok THEN Call(done, parsed.value, Undefined)
         ELSE IF Nullish(parsed.value) THEN Call(done, TypeError(121), Undefined)
         ELSE LET first == Call(done, Null, Profile(parsed.value, resp.body)) IN
              IF Threw(first.threw)
              THEN Then([first EXCEPT !.threw = NoThrow],
                        Call(done, first.threw, Undefined))
              ELSE first

\* the access token kept on the instance for the request
userProfile_keepsToken(this, at) ==
    [ this |-> [ t |-> "object", name |-> this.name, verify |-> this.verify,
                 _passReqToCallback |-> this._passReqToCallback,
                 _skipUserProfile |-> this._skipUserProfile,
                 _accessToken |-> at ],
      next |-> "get", skipCalls |-> <<>>,
      netCalls |-> << [url |-> UserinfoURL, accessToken |-> at] >>,
      effect |-> Effect(<<>>, <<>>, <<>>, NoThrow) ]

\* userProfile(accessToken, done), lines 110-111: the GET is issued and the
\* attempt waits for the provider
userProfile(this, at) ==
    [ this |-> this, next |-> "get", skipCalls |-> <<>>,
      netCalls |-> << [url |-> UserinfoURL, accessToken |-> at] >>,
      effect |-> Effect(<<>>, <<>>, <<>>, NoThrow) ]

----------------------------------------------------------------------------
(* loadUserProfile, lines 149-169 *)

\* loadUserProfile(accessToken, done): `this` as the call leaves it, where
\* the attempt waits next, the collaborators called, and the effect of
\* calling done when it is called before returning
loadUserProfile(this, at, done) ==
    LET s == this._skipUserProfile IN
    IF s.type = "function" /\ s.length > 1
    THEN [ this |-> this, next |-> "skip", skipCalls |-> <<at>>, netCalls |-> <<>>,
           effect |-> Effect(<<>>, <<>>, <<>>, NoThrow) ]
    ELSE IF ~Truthy(s.skip)        \* f() for a predicate, the value for a boolean
         THEN userProfile(this, at)
         ELSE [ this |-> this, next |-> "done", skipCalls |-> <<>>, netCalls |-> <<>>,
                effect |-> Call(done, Null, Undefined) ]

\* the callback (err, skip) => {...} of the asynchronous predicate, lines 151-161
skipUserProfileCallback(this, at, err, skip, done) ==
    IF Truthy(err)
    THEN [ this |-> this, next |-> "done", skipCalls |-> <<>>, netCalls |-> <<>>,
           effect |-> Call(done, err, Undefined) ]
    ELSE IF ~Truthy(skip)
         THEN userProfile(this, at)
         ELSE [ this |-> this, next |-> "done", skipCalls |-> <<>>, netCalls |-> <<>>,
                effect |-> Call(done, Null, Undefined) ]

----------------------------------------------------------------------------
(* authenticate(req), lines 57-94 *)

Returned(this, sig, threw) ==
    [ this |-> this, next |-> "done", skipCalls |-> <<>>, netCalls |-> <<>>,
      effect |-> Effect(sig, <<>>, <<>>, threw) ]

authenticate(this, request) ==
    LET at == ExtractToken(request, "access_token", 68)
        rt == ExtractToken(request, "refresh_token", 69)
        done == Closure(request, at.value, rt.value)
    IN  IF HasOAuthError(request)
        THEN [ step |-> Returned(this, <<Signal("fail", <<>>)>>, NoThrow),
               accessToken |-> Undefined, refreshToken |-> Undefined,
               loadCalls |-> <<>> ]
        ELSE IF ~Truthy(request.body)
        THEN [ step |-> Returned(this, <<Signal("fail", <<>>)>>, NoThrow),
               accessToken |-> Undefined, refreshToken |-> Undefined,
               loadCalls |-> <<>> ]
        ELSE IF Threw(at.threw)
        THEN [ step |-> Returned(this, <<>>, at.threw),
               accessToken |-> Undefined, refreshToken |-> Undefined,
               loadCalls |-> <<>> ]
        ELSE IF Threw(rt.threw)
        THEN [ step |-> Returned(this, <<>>, rt.threw),
               accessToken |-> at.value, refreshToken |-> Undefined,
               loadCalls |-> <<>> ]
        ELSE [ step |-> loadUserProfile(this, at.value, done),
               accessToken |-> at.value, refreshToken |-> rt.value,
               loadCalls |-> <<at.value>> ]

----------------------------------------------------------------------------
(* Actions *)

\* a step of attempt a: the attempt stops where an exception escapes
Apply(a, step) ==
    /\ strategy' = step.this
    /\ pc' = [pc EXCEPT ![a] = IF Threw(step.effect.threw) THEN "done" ELSE step.next]
    /\ skipCalls' = [skipCalls EXCEPT ![a] = @ \o step.skipCalls]
    /\ netCalls' = [netCalls EXCEPT ![a] = @ \o step.netCalls]
    /\ doneCalls' = [doneCalls EXCEPT ![a] = @ \o step.effect.doneCalls]
    /\ verifyCalls' = [verifyCalls EXCEPT ![a] = @ \o step.effect.verifyCalls]
    /\ signals' = [signals EXCEPT ![a] = @ \o step.effect.signals]
    /\ raised' = [raised EXCEPT ![a] =
                     IF Threw(step.effect.threw) THEN @ \o <<step.effect.threw>> ELSE @]

\* the function of line 71 that attempt a handed to loadUserProfile
Done(a) == Closure(req[a], accessToken[a], refreshToken[a])

\* the host framework calls authenticate(r)
Authenticate(a, r) ==
    /\ pc[a] = "idle"
    /\ LET res == authenticate(strategy, r) IN
          /\ req' = [req EXCEPT ![a] = r]
          /\ accessToken' = [accessToken EXCEPT ![a] = res.accessToken]
          /\ refreshToken' = [refreshToken EXCEPT ![a] = res.refreshToken]
          /\ loadCalls' = [loadCalls EXCEPT ![a] = @ \o res.loadCalls]
          /\ Apply(a, res.step)
    /\ UNCHANGED provided

\* the asynchronous skip predicate completes
SkipResponds(a) ==
    /\ pc[a] = "skip"
    /\ Apply(a, skipUserProfileCallback(strategy, accessToken[a],
                                        strategy._skipUserProfile.err,
                                        strategy._skipUserProfile.skip, Done(a)))
    /\ UNCHANGED << req, accessToken, refreshToken, loadCalls, provided >>

\* the provider answers the GET with resp
ProviderResponds(a, resp) ==
    /\ pc[a] = "get"
    /\ Apply(a, [ this |-> strategy, next |-> "done", skipCalls |-> <<>>,
                  netCalls |-> <<>>,
                  effect |-> userProfileResponse(resp, Done(a)) ])
    /\ provided' = [provided EXCEPT ![a] = @ \o <<resp>>]
    /\ UNCHANGED << req, accessToken, refreshToken, loadCalls >>

InitOver(attempts) ==
    /\ strategy \in Strategies
    /\ pc = [a \in attempts |-> "idle"]
    /\ req = [a \in attempts |-> NoRequest]
    /\ accessToken = [a \in attempts |-> Undefined]
    /\ refreshToken = [a \in attempts |-> Undefined]
    /\ loadCalls = [a \in attempts |-> <<>>]
    /\ skipCalls = [a \in attempts |-> <<>>]
    /\ netCalls = [a \in attempts |-> <<>>]
    /\ provided = [a \in attempts |-> <<>>]
    /\ doneCalls = [a \in attempts |-> <<>>]
    /\ verifyCalls = [a \in attempts |-> <<>>]
    /\ signals = [a \in attempts |-> <<>>]
    /\ raised = [a \in attempts |-> <<>>]

\* one authentication attempt, any request
Init == InitOver({1})

Next ==
    \E a \in DOMAIN pc :
        \/ \E r \in Requests : Authenticate(a, r)
        \/ SkipResponds(a)
        \/ \E resp \in ProviderResponses : ProviderResponds(a, resp)

Spec == Init /\ [][Next]_vars

\* several attempts in flight on the one instance
NumAttempts == 2

NoTokens == Obj([access_token |-> Undefined, refresh_token |-> Undefined])
NoParams == Obj([error |-> Undefined, access_token |-> Undefined,
                 refresh_token |-> Undefined])

ConcurrentRequests ==
    { [ query |-> Obj([error |-> Str("access_denied"), access_token |-> Undefined,
                       refresh_token |-> Undefined]),
        body |-> Obj([access_token |-> Str("at-body"), refresh_token |-> Undefined]),
        headers |-> NoTokens ],
      [ query |-> NoParams, body |-> Undefined, headers |-> NoTokens ],
      [ query |-> NoParams,
        body |-> Obj([access_token |-> Str("at-body"),
                      refresh_token |-> Str("rt-body")]),
        headers |-> NoTokens ],
      [ query |-> Obj([error |-> Undefined, access_token |-> Str("at-query"),
                       refresh_token |-> Str("rt-query")]),
        body |-> NoTokens, headers |-> NoTokens ] }

ConcurrentResponses ==
    { [err |-> ProviderError, body |-> Undefined],
      [err |-> Null, body |-> Body(AdaBody)],
      [err |-> Null, body |-> Body(HtmlBody)] }

InitConcurrent == InitOver(1..NumAttempts)

NextConcurrent ==
    \E a \in DOMAIN pc :
        \/ \E r \in ConcurrentRequests : Authenticate(a, r)
        \/ SkipResponds(a)
        \/ \E resp \in ConcurrentResponses : ProviderResponds(a, resp)

SpecConcurrent == InitConcurrent /\ [][NextConcurrent]_vars

----------------------------------------------------------------------------
(* Properties *)

Attempts == DOMAIN pc

\* a value that is there: neither undefined nor the empty string
Present(v) == v # Undefined /\ v # Str("")

\* the parameter k of a part of the request, undefined when the part or
\* the parameter is missing
Read(part, k) == IF part = Undefined THEN Undefined ELSE part.props[k]

FailNoReason == Signal("fail", <<>>)

\* a request as the host framework hands it over: query and headers are there
HasAllParts(r) == r.query # Undefined /\ r.headers # Undefined

\* C1: every invocation of authenticate yields exactly one terminal signal
\* among success, fail and error: never more than one, and one once the
\* invocation has run to its end (stated for requests that have a query
\* and a headers part).
C1_ExactlyOneSignal ==
    \A a \in Attempts :
        /\ Len(signals[a]) <= 1
        /\ (pc[a] = "done" /\ HasAllParts(req[a])) => Len(signals[a]) = 1

\* the errors profile acquisition completes with: the wrapped transport
\* error, the parse failure and the failure of the skip predicate
AcquisitionErrors ==
    { InternalOAuthError("failed to fetch user profile", ProviderError),
      SyntaxError, SkipError }

\* C2: when profile acquisition completes with an error, authenticate
\* signals the error outcome carrying that error, and neither fails,
\* succeeds nor calls the verification callback.
C2_AcquisitionErrorSignalsError ==
    \A a \in Attempts :
        (/\ pc[a] = "done" /\ HasAllParts(req[a])
         /\ doneCalls[a] # <<>> /\ doneCalls[a][1].err \in AcquisitionErrors)
            => /\ signals[a] = << Signal("error", << doneCalls[a][1].err >>) >>
               /\ verifyCalls[a] = <<>>

\* the outcome the completion done(err, user, info) of verify stands for
OutcomeOf(v) ==
    IF Truthy(v.err) THEN Signal("error", <<v.err>>)
    ELSE IF ~Truthy(v.user) THEN Signal("fail", <<v.info>>)
    ELSE Signal("success", <<v.user, v.info>>)

\* C3: after profile acquisition succeeds, the outcome of authenticate is
\* the one the verification callback's completion done(error, user, info)
\* determines.
C3_OutcomeFromVerify ==
    \A a \in Attempts :
        (/\ pc[a] = "done" /\ HasAllParts(req[a])
         /\ doneCalls[a] # <<>> /\ ~Truthy(doneCalls[a][1].err))
            => signals[a] = << OutcomeOf(strategy.verify) >>

\* C4: a request that carries an error query parameter (a non-empty one),
\* and a request without a parsed body, gets failure with no reason
\* payload and nothing else: no skip predicate, no network call, no
\* verification callback, whatever its tokens and the skip setting.
C4_PreconditionFailure ==
    \A a \in Attempts :
        (/\ pc[a] # "idle"
         /\ \/ Present(Read(req[a].query, "error"))
            \/ req[a].body = Undefined)
            => /\ pc[a] = "done"
               /\ signals[a] = << FailNoReason >>
               /\ loadCalls[a] = <<>>
               /\ skipCalls[a] = <<>>
               /\ netCalls[a] = <<>>
               /\ doneCalls[a] = <<>>
               /\ verifyCalls[a] = <<>>
               /\ raised[a] = <<>>

C4_Witness ==
    \E a \in Attempts :
        /\ pc[a] = "done"
        /\ Read(req[a].query, "error") = Str("access_denied")
        /\ Read(req[a].body, "access_token") = Str("at-body")
        /\ strategy._skipUserProfile = SkipBoolean(FALSE)
        /\ signals[a] = << FailNoReason >>

\* the token named k that the body, query, headers order selects
Selected(r, k) ==
    IF Present(Read(r.body, k)) THEN Read(r.body, k)
    ELSE IF Present(Read(r.query, k)) THEN Read(r.query, k)
    ELSE Read(r.headers, k)

SkipsAlways(s) ==
    s._skipUserProfile \in
        { SkipBoolean(TRUE), SkipSync(TRUE), SkipAsync(Null, Bool(TRUE)) }

\* C6: with a skip setting that always yields true, in each of its three
\* forms, authenticate on a request that passes the precondition checks
\* issues no network call and invokes the verification callback exactly
\* once, with an absent profile.
C6_SkipCallsVerifyWithoutProfile ==
    \A a \in Attempts :
        (/\ pc[a] = "done"
         /\ SkipsAlways(strategy)
         /\ req[a].body # Undefined /\ HasAllParts(req[a])
         /\ ~Present(Read(req[a].query, "error")))
            => /\ netCalls[a] = <<>>
               /\ Len(verifyCalls[a]) = 1
               /\ verifyCalls[a][1][Len(verifyCalls[a][1])] = Undefined

\* C7: with passReqToCallback true the verification callback is invoked
\* with (request, accessToken, refreshToken, profile, done), the request
\* being the one given to authenticate; with it false or omitted, with
\* (accessToken, refreshToken, profile, done).
C7_VerifyArguments ==
    \A a \in Attempts :
        (/\ pc[a] = "done" /\ HasAllParts(req[a])
         /\ doneCalls[a] # <<>> /\ ~Truthy(doneCalls[a][1].err))
            => verifyCalls[a] =
                 << IF strategy._passReqToCallback = Bool(TRUE)
                    THEN << req[a], accessToken[a], refreshToken[a],
                            doneCalls[a][1].profile >>
                    ELSE << accessToken[a], refreshToken[a],
                            doneCalls[a][1].profile >> >>

ParsesAsObject(resp) ==
    /\ resp.err = Null
    /\ JSONParse(resp.body.toks).ok
    /\ JSONParse(resp.body.toks).value.t = "object"

\* C8: for every response body that parses as a JSON object, userProfile
\* completes without error with a profile whose provider is "google" and
\* whose fields are those of the response: id, name as displayName,
\* family_name, given_name and middle_name under name, gender, email and
\* picture as one-element sequences, the parsed object as _json and the
\* unparsed body as _raw.
C8_ProfileMapping ==
    \A a \in Attempts :
        (provided[a] # <<>> /\ ParsesAsObject(provided[a][1])) =>
            LET json == JSONParse(provided[a][1].body.toks).value
                call == doneCalls[a][1]
                p == call.profile.props
            IN  /\ call.err = Null
                /\ DOMAIN p = { "provider", "id", "displayName", "name", "gender",
                                "emails", "photos", "_json", "_raw" }
                /\ p.provider = Str("google")
                /\ p.id = Get(json, "id")
                /\ p.displayName = Get(json, "name")
                /\ p.name = Obj([ familyName |-> Get(json, "family_name"),
                                  givenName  |-> Get(json, "given_name"),
                                  middleName |-> Get(json, "middle_name") ])
                /\ p.gender = Get(json, "gender")
                /\ p.emails = Arr(<< Obj([value |-> Get(json, "email")]) >>)
                /\ p.photos = Arr(<< Obj([value |-> Get(json, "picture")]) >>)
                /\ p._json = json
                /\ p._raw = provided[a][1].body
                /\ provided[a][1].body = Body(AdaBody) =>
                      /\ p.id = Str("42")
                      /\ p.displayName = Str("Ada Lovelace")
                      /\ p.name.props.familyName = Str("Lovelace")
                      /\ p.name.props.givenName = Str("Ada")
                      /\ p.name.props.middleName = Undefined
                      /\ p.emails = Arr(<< Obj([value |-> Str("ada@example.com")]) >>)
                      /\ p.photos = Arr(<< Obj([value |-> Str("http://x/y.png")]) >>)

C8_Witness ==
    \E a \in Attempts :
        /\ provided[a] = << [err |-> Null, body |-> Body(AdaBody)] >>
        /\ doneCalls[a] # <<>>
        /\ doneCalls[a][1].err = Null
        /\ doneCalls[a][1].profile.props.displayName = Str("Ada Lovelace")

\* everything attempt a has done and holds
AttemptState(a) ==
    << pc[a], req[a], accessToken[a], refreshToken[a], loadCalls[a], skipCalls[a],
       netCalls[a], provided[a], doneCalls[a], verifyCalls[a], signals[a], raised[a] >>

\* C9: under concurrent reuse of one instance no step of authenticate or
\* of profile loading writes the instance's state, a step of one attempt
\* leaves every other attempt as it was, and two attempts that got the same
\* request and the same collaborator responses end with the same
\* verification-callback arguments and the same terminal signal.
C9_InstanceReadOnly ==
    /\ [][ /\ strategy' = strategy
           /\ \A a, b \in Attempts :
                 (a # b /\ AttemptState(a)' # AttemptState(a))
                     => AttemptState(b)' = AttemptState(b) ]_vars
    /\ [](\A a, b \in Attempts :
             (/\ pc[a] = "done" /\ pc[b] = "done"
              /\ req[a] = req[b] /\ provided[a] = provided[b])
                 => AttemptState(a) = AttemptState(b))

C9_Witness ==
    \E a, b \in Attempts :
        /\ pc[a] = "get" /\ pc[b] = "done"
        /\ accessToken[a] = Str("at-body") /\ accessToken[b] = Str("at-query")
        /\ provided[b] # <<>>

\* C10: a request with a parsed body and no error parameter whose access
\* token is absent from the body, the query string and the headers (also
\* when it has no query or no headers part) still has the profile-loading
\* operation called, with the absent token.
C10_MissingTokenPassedOn ==
    \A a \in Attempts :
        (/\ pc[a] # "idle"
         /\ req[a].body # Undefined
         /\ ~Present(Read(req[a].query, "error"))
         /\ ~Present(Read(req[a].body, "access_token"))
         /\ ~Present(Read(req[a].query, "access_token"))
         /\ ~Present(Read(req[a].headers, "access_token")))
            => /\ Len(loadCalls[a]) = 1
               /\ ~Present(loadCalls[a][1])

====
